---- MODULE Spec2Model ----
(***************************************************************************)
(* Model of src/main.py (MultiAccountBot): the bootstrap, the handshake    *)
(* gate and the command dispatch of the message callback, over several     *)
(* process runs sharing one persisted config.json.                         *)
(*                                                                         *)
(* Python strings that the code inspects (event bodies, room ids, class    *)
(* names) are sequences of one-character strings, so that startswith,      *)
(* split(" "), int() and f-string formatting are computed, not assumed.    *)
(* A character that a TLA+ string cannot hold (a control character other   *)
(* than tab, newline, form feed and carriage return, or a character        *)
(* outside ASCII) is written as the string                                 *)
(* "U+XXXX" of its code point: "U+0661" is ARABIC-INDIC DIGIT ONE.         *)
(***************************************************************************)
EXTENDS Integers, Sequences, FiniteSets, TLC

VARIABLES
    disk,           \* the content of config.json: a dict ({} when the file is
                    \* absent), or Truncated when the file holds 0 bytes
    config,         \* self.config
    begin_process,  \* self.begin_process
    timestamp,      \* self.timestamp, the token of the run
    phase,          \* "down", "syncing", "exit0", "exit1", "raised", "killed"
    now,            \* the local clock, read once per run
    provisioned,    \* runs of _initialize_spaces that made their last call (line 84)
    ev,             \* the input of the last step
    pre,            \* the state the last step started from
    effects,        \* the effects of the last step, in order
    server,         \* the events the homeserver stores, in creation order
    dispatched      \* <<event, run>>: the commands dispatched, and by which run

vars == <<disk, config, begin_process, timestamp, phase, now,
          provisioned, ev, pre, effects, server, dispatched>>

----------------------------------------------------------------------------
(* Bounds of the model.                                                    *)

\* Server timestamps of delivered events range over 0..MaxTs.
MaxTs == 2
\* The local clock (time.time()) is read at most MaxClock times: one per run.
MaxClock == 2
\* With the homeserver's timeline in the model: the number of process runs,
\* and the number of messages users post.
MaxRuns == 3
MaxPosts == 2

----------------------------------------------------------------------------
(* Python string primitives.                                               *)

\* str.startswith
StartsWith(s, p) == Len(s) >= Len(p) /\ SubSeq(s, 1, Len(p)) = p

\* Index of the first occurrence of character c in s at or after i, else 0.
RECURSIVE Find(_, _, _)
Find(s, c, i) ==
    IF i > Len(s) THEN 0
    ELSE IF s[i] = c THEN i
    ELSE Find(s, c, i + 1)

\* str.split(sep) for a one-character separator: every separator cuts, so
\* adjacent separators yield empty fields and the result is never empty.
RECURSIVE Split(_, _)
Split(s, sep) ==
    LET i == Find(s, sep, 1)
    IN  IF i = 0 THEN <<s>>
        ELSE <<SubSeq(s, 1, i - 1)>> \o Split(SubSeq(s, i + 1, Len(s)), sep)

\* The digits str() and f-strings write.
Digits == <<"0", "1", "2", "3", "4", "5", "6", "7", "8", "9">>

\* The decimal digits of the other scripts (Unicode category Nd, Unicode
\* 14.0.0 of Python 3.11), "0" to "9" of each: int() reads them like Digits.
UnicodeDigits ==
    <<
       <<"U+0660", "U+0661", "U+0662", "U+0663", "U+0664", "U+0665", "U+0666", "U+0667", "U+0668", "U+0669">>,
       <<"U+06F0", "U+06F1", "U+06F2", "U+06F3", "U+06F4", "U+06F5", "U+06F6", "U+06F7", "U+06F8", "U+06F9">>,
       <<"U+07C0", "U+07C1", "U+07C2", "U+07C3", "U+07C4", "U+07C5", "U+07C6", "U+07C7", "U+07C8", "U+07C9">>,
       <<"U+0966", "U+0967", "U+0968", "U+0969", "U+096A", "U+096B", "U+096C", "U+096D", "U+096E", "U+096F">>,
       <<"U+09E6", "U+09E7", "U+09E8", "U+09E9", "U+09EA", "U+09EB", "U+09EC", "U+09ED", "U+09EE", "U+09EF">>,
       <<"U+0A66", "U+0A67", "U+0A68", "U+0A69", "U+0A6A", "U+0A6B", "U+0A6C", "U+0A6D", "U+0A6E", "U+0A6F">>,
       <<"U+0AE6", "U+0AE7", "U+0AE8", "U+0AE9", "U+0AEA", "U+0AEB", "U+0AEC", "U+0AED", "U+0AEE", "U+0AEF">>,
       <<"U+0B66", "U+0B67", "U+0B68", "U+0B69", "U+0B6A", "U+0B6B", "U+0B6C", "U+0B6D", "U+0B6E", "U+0B6F">>,
       <<"U+0BE6", "U+0BE7", "U+0BE8", "U+0BE9", "U+0BEA", "U+0BEB", "U+0BEC", "U+0BED", "U+0BEE", "U+0BEF">>,
       <<"U+0C66", "U+0C67", "U+0C68", "U+0C69", "U+0C6A", "U+0C6B", "U+0C6C", "U+0C6D", "U+0C6E", "U+0C6F">>,
       <<"U+0CE6", "U+0CE7", "U+0CE8", "U+0CE9", "U+0CEA", "U+0CEB", "U+0CEC", "U+0CED", "U+0CEE", "U+0CEF">>,
       <<"U+0D66", "U+0D67", "U+0D68", "U+0D69", "U+0D6A", "U+0D6B", "U+0D6C", "U+0D6D", "U+0D6E", "U+0D6F">>,
       <<"U+0DE6", "U+0DE7", "U+0DE8", "U+0DE9", "U+0DEA", "U+0DEB", "U+0DEC", "U+0DED", "U+0DEE", "U+0DEF">>,
       <<"U+0E50", "U+0E51", "U+0E52", "U+0E53", "U+0E54", "U+0E55", "U+0E56", "U+0E57", "U+0E58", "U+0E59">>,
       <<"U+0ED0", "U+0ED1", "U+0ED2", "U+0ED3", "U+0ED4", "U+0ED5", "U+0ED6", "U+0ED7", "U+0ED8", "U+0ED9">>,
       <<"U+0F20", "U+0F21", "U+0F22", "U+0F23", "U+0F24", "U+0F25", "U+0F26", "U+0F27", "U+0F28", "U+0F29">>,
       <<"U+1040", "U+1041", "U+1042", "U+1043", "U+1044", "U+1045", "U+1046", "U+1047", "U+1048", "U+1049">>,
       <<"U+1090", "U+1091", "U+1092", "U+1093", "U+1094", "U+1095", "U+1096", "U+1097", "U+1098", "U+1099">>,
       <<"U+17E0", "U+17E1", "U+17E2", "U+17E3", "U+17E4", "U+17E5", "U+17E6", "U+17E7", "U+17E8", "U+17E9">>,
       <<"U+1810", "U+1811", "U+1812", "U+1813", "U+1814", "U+1815", "U+1816", "U+1817", "U+1818", "U+1819">>,
       <<"U+1946", "U+1947", "U+1948", "U+1949", "U+194A", "U+194B", "U+194C", "U+194D", "U+194E", "U+194F">>,
       <<"U+19D0", "U+19D1", "U+19D2", "U+19D3", "U+19D4", "U+19D5", "U+19D6", "U+19D7", "U+19D8", "U+19D9">>,
       <<"U+1A80", "U+1A81", "U+1A82", "U+1A83", "U+1A84", "U+1A85", "U+1A86", "U+1A87", "U+1A88", "U+1A89">>,
       <<"U+1A90", "U+1A91", "U+1A92", "U+1A93", "U+1A94", "U+1A95", "U+1A96", "U+1A97", "U+1A98", "U+1A99">>,
       <<"U+1B50", "U+1B51", "U+1B52", "U+1B53", "U+1B54", "U+1B55", "U+1B56", "U+1B57", "U+1B58", "U+1B59">>,
       <<"U+1BB0", "U+1BB1", "U+1BB2", "U+1BB3", "U+1BB4", "U+1BB5", "U+1BB6", "U+1BB7", "U+1BB8", "U+1BB9">>,
       <<"U+1C40", "U+1C41", "U+1C42", "U+1C43", "U+1C44", "U+1C45", "U+1C46", "U+1C47", "U+1C48", "U+1C49">>,
       <<"U+1C50", "U+1C51", "U+1C52", "U+1C53", "U+1C54", "U+1C55", "U+1C56", "U+1C57", "U+1C58", "U+1C59">>,
       <<"U+A620", "U+A621", "U+A622", "U+A623", "U+A624", "U+A625", "U+A626", "U+A627", "U+A628", "U+A629">>,
       <<"U+A8D0", "U+A8D1", "U+A8D2", "U+A8D3", "U+A8D4", "U+A8D5", "U+A8D6", "U+A8D7", "U+A8D8", "U+A8D9">>,
       <<"U+A900", "U+A901", "U+A902", "U+A903", "U+A904", "U+A905", "U+A906", "U+A907", "U+A908", "U+A909">>,
       <<"U+A9D0", "U+A9D1", "U+A9D2", "U+A9D3", "U+A9D4", "U+A9D5", "U+A9D6", "U+A9D7", "U+A9D8", "U+A9D9">>,
       <<"U+A9F0", "U+A9F1", "U+A9F2", "U+A9F3", "U+A9F4", "U+A9F5", "U+A9F6", "U+A9F7", "U+A9F8", "U+A9F9">>,
       <<"U+AA50", "U+AA51", "U+AA52", "U+AA53", "U+AA54", "U+AA55", "U+AA56", "U+AA57", "U+AA58", "U+AA59">>,
       <<"U+ABF0", "U+ABF1", "U+ABF2", "U+ABF3", "U+ABF4", "U+ABF5", "U+ABF6", "U+ABF7", "U+ABF8", "U+ABF9">>,
       <<"U+FF10", "U+FF11", "U+FF12", "U+FF13", "U+FF14", "U+FF15", "U+FF16", "U+FF17", "U+FF18", "U+FF19">>,
       <<"U+104A0", "U+104A1", "U+104A2", "U+104A3", "U+104A4", "U+104A5", "U+104A6", "U+104A7", "U+104A8", "U+104A9">>,
       <<"U+10D30", "U+10D31", "U+10D32", "U+10D33", "U+10D34", "U+10D35", "U+10D36", "U+10D37", "U+10D38", "U+10D39">>,
       <<"U+11066", "U+11067", "U+11068", "U+11069", "U+1106A", "U+1106B", "U+1106C", "U+1106D", "U+1106E", "U+1106F">>,
       <<"U+110F0", "U+110F1", "U+110F2", "U+110F3", "U+110F4", "U+110F5", "U+110F6", "U+110F7", "U+110F8", "U+110F9">>,
       <<"U+11136", "U+11137", "U+11138", "U+11139", "U+1113A", "U+1113B", "U+1113C", "U+1113D", "U+1113E", "U+1113F">>,
       <<"U+111D0", "U+111D1", "U+111D2", "U+111D3", "U+111D4", "U+111D5", "U+111D6", "U+111D7", "U+111D8", "U+111D9">>,
       <<"U+112F0", "U+112F1", "U+112F2", "U+112F3", "U+112F4", "U+112F5", "U+112F6", "U+112F7", "U+112F8", "U+112F9">>,
       <<"U+11450", "U+11451", "U+11452", "U+11453", "U+11454", "U+11455", "U+11456", "U+11457", "U+11458", "U+11459">>,
       <<"U+114D0", "U+114D1", "U+114D2", "U+114D3", "U+114D4", "U+114D5", "U+114D6", "U+114D7", "U+114D8", "U+114D9">>,
       <<"U+11650", "U+11651", "U+11652", "U+11653", "U+11654", "U+11655", "U+11656", "U+11657", "U+11658", "U+11659">>,
       <<"U+116C0", "U+116C1", "U+116C2", "U+116C3", "U+116C4", "U+116C5", "U+116C6", "U+116C7", "U+116C8", "U+116C9">>,
       <<"U+11730", "U+11731", "U+11732", "U+11733", "U+11734", "U+11735", "U+11736", "U+11737", "U+11738", "U+11739">>,
       <<"U+118E0", "U+118E1", "U+118E2", "U+118E3", "U+118E4", "U+118E5", "U+118E6", "U+118E7", "U+118E8", "U+118E9">>,
       <<"U+11950", "U+11951", "U+11952", "U+11953", "U+11954", "U+11955", "U+11956", "U+11957", "U+11958", "U+11959">>,
       <<"U+11C50", "U+11C51", "U+11C52", "U+11C53", "U+11C54", "U+11C55", "U+11C56", "U+11C57", "U+11C58", "U+11C59">>,
       <<"U+11D50", "U+11D51", "U+11D52", "U+11D53", "U+11D54", "U+11D55", "U+11D56", "U+11D57", "U+11D58", "U+11D59">>,
       <<"U+11DA0", "U+11DA1", "U+11DA2", "U+11DA3", "U+11DA4", "U+11DA5", "U+11DA6", "U+11DA7", "U+11DA8", "U+11DA9">>,
       <<"U+16A60", "U+16A61", "U+16A62", "U+16A63", "U+16A64", "U+16A65", "U+16A66", "U+16A67", "U+16A68", "U+16A69">>,
       <<"U+16AC0", "U+16AC1", "U+16AC2", "U+16AC3", "U+16AC4", "U+16AC5", "U+16AC6", "U+16AC7", "U+16AC8", "U+16AC9">>,
       <<"U+16B50", "U+16B51", "U+16B52", "U+16B53", "U+16B54", "U+16B55", "U+16B56", "U+16B57", "U+16B58", "U+16B59">>,
       <<"U+1D7CE", "U+1D7CF", "U+1D7D0", "U+1D7D1", "U+1D7D2", "U+1D7D3", "U+1D7D4", "U+1D7D5", "U+1D7D6", "U+1D7D7">>,
       <<"U+1D7D8", "U+1D7D9", "U+1D7DA", "U+1D7DB", "U+1D7DC", "U+1D7DD", "U+1D7DE", "U+1D7DF", "U+1D7E0", "U+1D7E1">>,
       <<"U+1D7E2", "U+1D7E3", "U+1D7E4", "U+1D7E5", "U+1D7E6", "U+1D7E7", "U+1D7E8", "U+1D7E9", "U+1D7EA", "U+1D7EB">>,
       <<"U+1D7EC", "U+1D7ED", "U+1D7EE", "U+1D7EF", "U+1D7F0", "U+1D7F1", "U+1D7F2", "U+1D7F3", "U+1D7F4", "U+1D7F5">>,
       <<"U+1D7F6", "U+1D7F7", "U+1D7F8", "U+1D7F9", "U+1D7FA", "U+1D7FB", "U+1D7FC", "U+1D7FD", "U+1D7FE", "U+1D7FF">>,
       <<"U+1E140", "U+1E141", "U+1E142", "U+1E143", "U+1E144", "U+1E145", "U+1E146", "U+1E147", "U+1E148", "U+1E149">>,
       <<"U+1E2F0", "U+1E2F1", "U+1E2F2", "U+1E2F3", "U+1E2F4", "U+1E2F5", "U+1E2F6", "U+1E2F7", "U+1E2F8", "U+1E2F9">>,
       <<"U+1E950", "U+1E951", "U+1E952", "U+1E953", "U+1E954", "U+1E955", "U+1E956", "U+1E957", "U+1E958", "U+1E959">>,
       <<"U+1FBF0", "U+1FBF1", "U+1FBF2", "U+1FBF3", "U+1FBF4", "U+1FBF5", "U+1FBF6", "U+1FBF7", "U+1FBF8", "U+1FBF9">>
    >>

\* Every character int() takes for a decimal digit.
DecimalDigits ==
    {Digits[d] : d \in 1..10}
    \cup {UnicodeDigits[r][d] : r \in DOMAIN UnicodeDigits, d \in 1..10}

IsDigit(c) == c \in DecimalDigits

\* The value of a decimal digit: its place in the "0" to "9" of its script.
DigitVal(c) ==
    IF \E d \in 1..10 : Digits[d] = c
    THEN (CHOOSE d \in 1..10 : Digits[d] = c) - 1
    ELSE (CHOOSE d \in 1..10 :
            \E r \in DOMAIN UnicodeDigits : UnicodeDigits[r][d] = c) - 1

\* The characters int() strips from both ends of its argument: the Unicode
\* whitespace. str.split(" ") cuts at " " only and leaves the others in the
\* fields.
Whitespace ==
    { " ", "\t", "\n", "\r", "\f",
      "U+000B", "U+0085", "U+00A0", "U+1680", "U+2000", "U+2001",
      "U+2002", "U+2003", "U+2004", "U+2005", "U+2006", "U+2007",
      "U+2008", "U+2009", "U+200A", "U+2028", "U+2029", "U+202F",
      "U+205F", "U+3000" }

\* str.strip() as int() applies it to its argument.
RECURSIVE Strip(_)
Strip(s) ==
    IF s = <<>> THEN s
    ELSE IF s[1] \in Whitespace THEN Strip(Tail(s))
    ELSE IF s[Len(s)] \in Whitespace THEN Strip(SubSeq(s, 1, Len(s) - 1))
    ELSE s

\* The digit part of a decimal literal accepted by int(): digits, with single
\* underscores allowed between two digits.
IsDigitPart(s) ==
    /\ s # <<>>
    /\ \A i \in DOMAIN s :
          \/ IsDigit(s[i])
          \/ /\ s[i] = "_"
             /\ 1 < i /\ i < Len(s)
             /\ IsDigit(s[i - 1]) /\ IsDigit(s[i + 1])

RECURSIVE DigitPartVal(_, _)
DigitPartVal(s, acc) ==
    IF s = <<>> THEN acc
    ELSE IF s[1] = "_" THEN DigitPartVal(Tail(s), acc)
    ELSE DigitPartVal(Tail(s), 10 * acc + DigitVal(s[1]))

Unsigned(s) == IF s # <<>> /\ s[1] \in {"+", "-"} THEN Tail(s) ELSE s

\* sys.get_int_max_str_digits() of CPython 3.11: int() raises ValueError on a
\* decimal literal of more digits.
MaxStrDigits == 4300

\* The digits of a literal: underscores, the sign and the stripped whitespace
\* do not count, leading zeros do.
DigitCount(s) == Cardinality({i \in DOMAIN s : IsDigit(s[i])})

\* int(s) succeeds (does not raise ValueError).
IsInt(s) ==
    LET literal == Unsigned(Strip(s))
    IN  IsDigitPart(literal) /\ DigitCount(literal) <= MaxStrDigits

\* The value of int(s) when it succeeds.
ParseInt(s) ==
    LET t == Strip(s)
        v == DigitPartVal(Unsigned(t), 0)
    IN  IF t[1] = "-" THEN 0 - v ELSE v

\* str(n) for a non-negative integer, as an f-string formats it.
RECURSIVE NatToChars(_)
NatToChars(n) ==
    IF n < 10 THEN <<Digits[n + 1]>>
    ELSE NatToChars(n \div 10) \o <<Digits[(n % 10) + 1]>>

IntToChars(n) == IF n < 0 THEN <<"-">> \o NatToChars(0 - n) ELSE NatToChars(n)

----------------------------------------------------------------------------
(* Dictionaries: self.config and the content of config.json.               *)

\* {} ; also what __init__ loads when config.json does not exist.
EmptyDict == [k \in {} |-> 0]

\* config.json of 0 bytes, as open("config.json", "w") of line 156 leaves it
\* until the text is written: no JSON document. It is written as a mapping
\* that no config equals, so that it compares with what the file holds
\* otherwise.
Truncated == [k \in {"0 bytes"} |-> 0]

\* dict.get(k, d)
Get(c, k, d) == IF k \in DOMAIN c THEN c[k] ELSE d

\* c[k] = v
Put(c, k, v) == [x \in (DOMAIN c) \cup {k} |-> IF x = k THEN v ELSE c[x]]

\* Python truthiness of config.get(k): absent (None) and "" are falsy.
Truthy(c, k) == k \in DOMAIN c /\ c[k] # <<>>

----------------------------------------------------------------------------
(* Rooms and the homeserver.                                               *)

\* environ["LOG_ROOM"] : "!l:d"
LOG_ROOM == <<"!", "l", ":", "d">>
\* A room the bot has joined, "!a:d", and one it has not, "!b:d".
R1 == <<"!", "a", ":", "d">>
R2 == <<"!", "b", ":", "d">>

\* Ids the server hands out for the space and the control room of the k-th
\* provisioning that completes. Rooms left by an attempt that failed midway
\* are recorded nowhere and not told apart.
SpaceId(k) == <<"!", "s">> \o NatToChars(k) \o <<":", "d">>
ControlId(k) == <<"!", "c">> \o NatToChars(k) \o <<":", "d">>

\* The rooms of the response of client.joined_rooms() after k provisionings.
JoinedRooms(k) ==
    {LOG_ROOM, R1} \cup {SpaceId(i) : i \in 1..k} \cup {ControlId(i) : i \in 1..k}

\* Class names of nio events, as str(type(message)) shows them after the
\* module path "<class 'nio.events.room_events.".
RoomMessagePrefix == <<"R", "o", "o", "m", "M", "e", "s", "s", "a", "g", "e">>
RoomMessageText == RoomMessagePrefix \o <<"T", "e", "x", "t">>
RoomMessageImage == RoomMessagePrefix \o <<"I", "m", "a", "g", "e">>
RoomMemberEvent == <<"R", "o", "o", "m", "M", "e", "m", "b", "e", "r", "E", "v", "e", "n", "t">>

\* Events stored in the timeline of room R1.
M1 == [cls |-> RoomMessageText,
       content |-> [msgtype |-> "m.text", body |-> <<"h", "i">>]]
M2 == [cls |-> RoomMessageImage,
       content |-> [msgtype |-> "m.image", body |-> <<"p">>]]
S1 == [cls |-> RoomMemberEvent,
       content |-> [msgtype |-> "", body |-> <<>>]]

\* Timelines (oldest first) the crawled room may hold.
Timelines ==
    { <<M1, M2>>, <<M1, S1>>, <<M1, M2, S1>> }

RECURSIVE Reverse(_)
Reverse(s) == IF s = <<>> THEN <<>> ELSE Reverse(Tail(s)) \o <<Head(s)>>

Take(s, n) == IF n <= 0 THEN <<>> ELSE SubSeq(s, 1, IF n < Len(s) THEN n ELSE Len(s))

\* The chunk of a successful client.room_messages(room, start="", limit=n):
\* nio's default direction is backwards from the newest event, with no filter
\* on the event type.
RoomMessages(timeline, n) == Take(Reverse(timeline), n)

----------------------------------------------------------------------------
(* Effects: the calls a handler makes on the client, the disk and the      *)
(* process, in the order it makes them.                                    *)

\* An f-string: its fixed text and the formatted values it interpolates.
Msg(text, args) == [text |-> text, args |-> args]

\* The outcomes of the room_send inside log(): TRUE is a normal response,
\* FALSE an nio.ErrorResponse, which log() reports on local output only.
SendOutcomes == BOOLEAN

\* log(message, room_id): one effect per call, for each outcome of its send.
\* Line 17 sends to "room_id or LOG_ROOM": an empty room id is falsy.
Log(message, room) ==
    { <<[type |-> "log", room |-> IF room = <<>> THEN LOG_ROOM ELSE room,
         msg |-> message, sent |-> ok]>> :
        ok \in SendOutcomes }

\* client.room_send(room, "m.room.message", content); its response is not looked at.
RoomSend(room, content) == [type |-> "send", room |-> room, content |-> content]

CloseSession == [type |-> "close"]
PersistConfig(cfg) == [type |-> "persist", config |-> cfg]
Terminate(code) == [type |-> "terminate", code |-> code]
\* client.joined_rooms(): a JoinedRoomsResponse, or a JoinedRoomsError, which
\* has no attribute "rooms".
JoinedLookup == [type |-> "joined_rooms", ok |-> TRUE]
JoinedLookupError == [type |-> "joined_rooms", ok |-> FALSE]
HistoryFetch(room, n, timeline, ok) ==
    [type |-> "room_messages", room |-> room, limit |-> n,
     stored |-> timeline, ok |-> ok,
     chunk |-> IF ok THEN RoomMessages(timeline, n) ELSE <<>>]

\* What one invocation of a handler leaves behind: the new self.config and
\* self.begin_process, the effects, and how it ended ("return", "raise" for an
\* uncaught exception, "exit0" / "exit1" for SystemExit).
Result(cfg, begin, eff, out) ==
    [config |-> cfg, begin_process |-> begin, effects |-> eff, outcome |-> out]

----------------------------------------------------------------------------
(* message_callback                                                        *)

TimestampPrefix == <<"T", "i", "m", "e", "s", "t", "a", "m", "p", ":">>
PingCmd == <<"!", "p", "i", "n", "g">>
ExitCmd == <<"!", "e", "x", "i", "t">>
CrawlCmd == <<"!", "c", "r", "a", "w", "l">>

\* Mutant of IsStale: the comparison off by one.
IsStale_OffByOne(ts, cfg) == ts + 1 < Get(cfg, "LAST_TIMESTAMP", 0)

\* Mutant of IsStale: the watermark test left out.
IsStale_Never(ts, cfg) == FALSE

\* line 126: the event is older than the watermark
IsStale(ts, cfg) == ts < Get(cfg, "LAST_TIMESTAMP", 0)

\* lines 128-132: a log-room message of marker shape
IsMarkerShape(room, body) ==
    /\ StartsWith(body, TimestampPrefix)
    /\ Len(Split(body, " ")) = 2
    /\ room = LOG_ROOM

\* Mutant of HandleMarker: the token compared as a string with the integer
\* self.timestamp, which never matches.
HandleMarker_StringCompare(body, ts, cfg, begin, tok) ==
    {Result(cfg, begin, <<>>, "return")}

\* Mutant of HandleMarker: any integer token is taken for this run's own.
HandleMarker_AnyToken(body, ts, cfg, begin, tok) ==
    LET arg == Split(body, " ")[2]
    IN  IF ~IsInt(arg) THEN {Result(cfg, begin, <<>>, "return")}
        ELSE { Result(Put(cfg, "LAST_TIMESTAMP", ts), TRUE, l, "return") :
                 l \in Log(Msg("Timestamp verified, starting process...", <<>>), LOG_ROOM) }

\* Mutant of HandleMarker: begin_process assigned the result of the token
\* comparison, so that a foreign marker closes the session again.
HandleMarker_Resets(body, ts, cfg, begin, tok) ==
    LET arg == Split(body, " ")[2]
    IN  IF ~IsInt(arg) THEN {Result(cfg, begin, <<>>, "return")}
        ELSE IF ParseInt(arg) = tok
        THEN { Result(Put(cfg, "LAST_TIMESTAMP", ts), TRUE, l, "return") :
                 l \in Log(Msg("Timestamp verified, starting process...", <<>>), LOG_ROOM) }
        ELSE {Result(cfg, FALSE, <<>>, "return")}

\* Mutant of HandleMarker: the session is started and the watermark is left
\* where it was.
HandleMarker_NoWatermark(body, ts, cfg, begin, tok) ==
    LET arg == Split(body, " ")[2]
    IN  IF ~IsInt(arg) THEN {Result(cfg, begin, <<>>, "return")}
        ELSE IF ParseInt(arg) = tok
        THEN { Result(cfg, TRUE, l, "return") :
                 l \in Log(Msg("Timestamp verified, starting process...", <<>>), LOG_ROOM) }
        ELSE {Result(cfg, begin, <<>>, "return")}

\* lines 133-141
HandleMarker(body, ts, cfg, begin, tok) ==
    LET arg == Split(body, " ")[2]
    IN  IF ~IsInt(arg) THEN {Result(cfg, begin, <<>>, "return")}
        ELSE IF ParseInt(arg) = tok
        THEN { Result(Put(cfg, "LAST_TIMESTAMP", ts), TRUE, l, "return") :
                 l \in Log(Msg("Timestamp verified, starting process...", <<>>), LOG_ROOM) }
        ELSE {Result(cfg, begin, <<>>, "return")}

\* Mutant of NotStarted: the gate on begin_process left out.
NotStarted_Never(begin) == FALSE

\* line 142
NotStarted(begin) == ~begin

\* lines 145-147
IsControlCommand(room, body, cfg) ==
    /\ "CONTROL_ROOM" \in DOMAIN cfg
    /\ room = cfg["CONTROL_ROOM"]
    /\ StartsWith(body, <<"!">>)

\* lines 148-149: the effects of the first, unchained "if"
PingEffects(room, body) ==
    IF body = PingCmd THEN Log(Msg("Pong!", <<>>), room) ELSE {<<>>}

\* Mutant of ExitEffects: config.json written before LAST_TIMESTAMP is set.
ExitEffects_Unstamped(room, ts, cfg) ==
    { l1 \o l2 \o <<CloseSession, PersistConfig(cfg), Terminate(0)>> :
        l1 \in Log(Msg("Exiting...", <<>>), room),
        l2 \in Log(Msg("--- END OF BOT LOG ---", <<>>), LOG_ROOM) }

\* Mutant of ExitEffects: a failed send of log() raises, and the handler stops
\* at the log whose send failed.
ExitEffects_AbortOnFailure(room, ts, cfg) ==
    { IF ~l1[1].sent THEN l1
      ELSE IF ~l2[1].sent THEN l1 \o l2
      ELSE l1 \o l2 \o <<CloseSession,
                          PersistConfig(Put(cfg, "LAST_TIMESTAMP", ts)),
                          Terminate(0)>> :
        l1 \in Log(Msg("Exiting...", <<>>), room),
        l2 \in Log(Msg("--- END OF BOT LOG ---", <<>>), LOG_ROOM) }

\* lines 151-157
ExitEffects(room, ts, cfg) ==
    { l1 \o l2 \o <<CloseSession,
                    PersistConfig(Put(cfg, "LAST_TIMESTAMP", ts)),
                    Terminate(0)>> :
        l1 \in Log(Msg("Exiting...", <<>>), room),
        l2 \in Log(Msg("--- END OF BOT LOG ---", <<>>), LOG_ROOM) }

\* Mutant of InRoom: the membership test left out.
InRoom_Always(room_id, joined) == TRUE

\* line 169: room_id in joined_rooms().rooms
InRoom(room_id, joined) == room_id \in joined

\* lines 187-189
IsRoomMessage(message) == StartsWith(message.cls, RoomMessagePrefix)

\* lines 185-194: one send into the log room per room message of the chunk
RECURSIVE Forward(_)
Forward(chunk) ==
    IF chunk = <<>> THEN <<>>
    ELSE (IF IsRoomMessage(Head(chunk))
          THEN <<RoomSend(LOG_ROOM, Head(chunk).content)>>
          ELSE <<>>) \o Forward(Tail(chunk))

\* lines 172-195: the room is joined
CrawlRoom(room, room_id, n) ==
    { <<JoinedLookup>> \o p \o <<HistoryFetch(room_id, n, tl, TRUE)>>
        \o Forward(RoomMessages(tl, n)) :
        p \in Log(Msg("Crawling {} messages from {}", <<IntToChars(n), room_id>>), room),
        tl \in Timelines }
    \cup
    { <<JoinedLookup>> \o p \o <<HistoryFetch(room_id, n, <<>>, FALSE)>> \o e :
        p \in Log(Msg("Crawling {} messages from {}", <<IntToChars(n), room_id>>), room),
        e \in Log(Msg("Error getting messages: {}", <<>>), room) }

\* lines 159-195: the body starts with "!crawl". int() raises ValueError on
\* a count that is no integer literal, and ".rooms" raises AttributeError on
\* an error answer of joined_rooms(); nothing catches either.
HandleCrawl(room, body, cfg, begin, joined) ==
    LET args == Split(body, " ")
    IN  IF Len(args) # 3
        THEN { Result(cfg, begin, l, "return") :
                 l \in Log(Msg("Invalid arguments. Expected: !crawl <room_id> <num_messages>",
                               <<>>), room) }
        ELSE IF ~IsInt(args[3])
        THEN {Result(cfg, begin, <<>>, "raise")}
        ELSE {Result(cfg, begin, <<JoinedLookupError>>, "raise")}
             \cup
             (IF ~InRoom(args[2], joined)
              THEN { Result(cfg, begin, <<JoinedLookup>> \o l, "return") :
                       l \in Log(Msg("Not in room", <<>>), room) }
              ELSE { Result(cfg, begin, e, "return") :
                       e \in CrawlRoom(room, args[2], ParseInt(args[3])) })

\* line 159: the test that selects the crawl branch
IsCrawl(body) == StartsWith(body, CrawlCmd)

\* lines 148-200: the command branches. "if body == '!ping'" is not chained
\* to the tests after it, and the final "else" belongs to the "!crawl" test.
Dispatch(room, body, ts, cfg, begin, joined) ==
    IF body = ExitCmd
    THEN { Result(Put(cfg, "LAST_TIMESTAMP", ts), begin, p \o e, "exit0") :
             p \in PingEffects(room, body), e \in ExitEffects(room, ts, cfg) }
    ELSE IF IsCrawl(body)
    THEN { [r EXCEPT !.effects = p \o @] :
             p \in PingEffects(room, body),
             r \in HandleCrawl(room, body, cfg, begin, joined) }
    ELSE { Result(cfg, begin, p \o l, "return") :
             p \in PingEffects(room, body),
             l \in Log(Msg("Invalid command. Available commands: !ping, !exit, !crawl",
                           <<>>), room) }

\* lines 122-200
MessageCallback(room, body, ts, cfg, begin, tok, joined) ==
    IF IsStale(ts, cfg) THEN {Result(cfg, begin, <<>>, "return")}
    ELSE IF IsMarkerShape(room, body) THEN HandleMarker(body, ts, cfg, begin, tok)
    ELSE IF NotStarted(begin) THEN {Result(cfg, begin, <<>>, "return")}
    ELSE IF IsControlCommand(room, body, cfg)
    THEN Dispatch(room, body, ts, cfg, begin, joined)
    ELSE {Result(cfg, begin, <<>>, "return")}

----------------------------------------------------------------------------
(* start                                                                   *)

\* environ.get("CONTROLLER"): "@op:d" when set.
CONTROLLER == <<"@", "o", "p", ":", "d">>

RoomCreate(kind, ok) == [type |-> "room_create", kind |-> kind, ok |-> ok]
PutState(room, kind, key, via, ok) ==
    [type |-> "put_state", room |-> room, kind |-> kind, key |-> key,
     via |-> via, ok |-> ok]
Invite(room, user) == [type |-> "invite", room |-> room, user |-> user]

\* str.split(":")[1] of a room id
ViaDomain(room_id) == Split(room_id, ":")[2]

\* Mutant of SpaceFailure: the failure is logged and "raise SystemExit(1)"
\* is missing, so that _initialize_spaces returns to start().
SpaceFailure_Returns(cfg, begin) ==
    { Result(cfg, begin, <<RoomCreate("space", FALSE)>> \o l, "return") :
        l \in Log(Msg("Error creating room: {}", <<>>), LOG_ROOM) }

\* lines 35-38: room_create of the space answers RoomCreateError
SpaceFailure(cfg, begin) ==
    { Result(cfg, begin, <<RoomCreate("space", FALSE)>> \o l, "exit1") :
        l \in Log(Msg("Error creating room: {}", <<>>), LOG_ROOM) }

\* The answers to the room_put_state of lines 75 and 84, which the code does
\* not look at: TRUE is a normal response, FALSE a RoomPutStateError.
PutStateOutcomes == BOOLEAN

\* lines 34-88: _initialize_spaces after k completed provisionings. res names
\* the first call whose failure ends it: "space" (RoomCreateError, handled:
\* SystemExit(1)), "room" (the control room's RoomCreateError has no room_id:
\* AttributeError), "state" (the child-link write's error has no event_id:
\* AttributeError), or "ok" (none: it runs to line 88).
InitializeSpaces(cfg, begin, k, res) ==
    LET space_id == SpaceId(k + 1)
        room_id == ControlId(k + 1)
        via_domain == ViaDomain(space_id)
        cfg1 == Put(cfg, "ADMIN_SPACE", space_id)
        cfg2 == Put(cfg1, "CONTROL_ROOM", room_id)
    IN  IF res = "space"
        THEN SpaceFailure(cfg, begin)
        ELSE IF res = "room"
        THEN { Result(cfg1, begin,
                      <<RoomCreate("space", TRUE)>> \o l
                        \o <<RoomCreate("control", FALSE)>>, "raise") :
                 l \in Log(Msg("Created space with ID {}", <<space_id>>), LOG_ROOM) }
        ELSE IF res = "state"
        THEN { Result(cfg1, begin,
                      <<RoomCreate("space", TRUE)>> \o l
                        \o <<RoomCreate("control", TRUE),
                             PutState(space_id, "m.space.child", room_id, via_domain, FALSE)>>,
                      "raise") :
                 l \in Log(Msg("Created space with ID {}", <<space_id>>), LOG_ROOM) }
        ELSE { Result(cfg2, begin,
                      <<RoomCreate("space", TRUE)>> \o l1
                        \o <<RoomCreate("control", TRUE),
                             PutState(space_id, "m.space.child", room_id, via_domain, TRUE)>>
                        \o l2
                        \o <<PutState(space_id, "m.space.child", LOG_ROOM, via_domain, link),
                             PutState(LOG_ROOM, "m.room.name", <<>>, <<>>, name)>>,
                      "return") :
                 l1 \in Log(Msg("Created space with ID {}", <<space_id>>), LOG_ROOM),
                 l2 \in Log(Msg("Created control room with ID {}", <<room_id>>), LOG_ROOM),
                 link \in PutStateOutcomes,
                 name \in PutStateOutcomes }

\* line 101: the gate of provisioning
NeedsProvisioning(cfg) == ~Truthy(cfg, "ADMIN_SPACE")

\* line 116: the body of the handshake marker
MarkerBody(tok) == TimestampPrefix \o <<" ">> \o IntToChars(tok)

\* lines 105-117, after provisioning: the invite, the token, the marker
Handshake(cfg, tok, controller) ==
    (IF controller
     THEN <<Invite(Get(cfg, "ADMIN_SPACE", <<>>), CONTROLLER)>>
     ELSE <<>>)
    \o <<RoomSend(LOG_ROOM, [msgtype |-> "m.text", body |-> MarkerBody(tok)])>>

\* line 97
BeginAtInit == FALSE

\* lines 90-120: __init__ and start up to sync_forever, for the config
\* loaded from disk. The outcome "return" stands for entering sync_forever.
\* With res "login" the login of line 100 is answered by an error, which has
\* no device_id: AttributeError before any other call.
StartRun(loaded, k, tok, res, controller) ==
    IF res = "login"
    THEN {Result(loaded, BeginAtInit, <<>>, "raise")}
    ELSE IF NeedsProvisioning(loaded)
    THEN { IF r.outcome = "return"
           THEN [r EXCEPT !.effects = c \o @ \o Handshake(r.config, tok, controller)]
           ELSE [r EXCEPT !.effects = c \o @] :
             c \in Log(Msg("Creating admin space...", <<>>), LOG_ROOM),
             r \in InitializeSpaces(loaded, BeginAtInit, k, res) }
    ELSE {Result(loaded, BeginAtInit, Handshake(loaded, tok, controller), "return")}

----------------------------------------------------------------------------
(* The inputs of the model.                                                *)

\* "!crawl"
BareCrawl ==
    <<"!", "c", "r", "a", "w", "l">>
\* "!crawl !a:d 1"
Crawl1 ==
    <<"!", "c", "r", "a", "w", "l", " ", "!", "a", ":", "d", " ", "1">>
\* "!crawl !a:d 2"
Crawl2 ==
    <<"!", "c", "r", "a", "w", "l", " ", "!", "a", ":", "d", " ", "2">>
\* "!crawl !b:d 1"
CrawlNotJoined ==
    <<"!", "c", "r", "a", "w", "l", " ", "!", "b", ":", "d", " ", "1">>
\* "!crawl !a:d x"
CrawlNonNumeric ==
    <<"!", "c", "r", "a", "w", "l", " ", "!", "a", ":", "d", " ", "x">>
\* "!crawl !a:d 0"
CrawlZero ==
    <<"!", "c", "r", "a", "w", "l", " ", "!", "a", ":", "d", " ", "0">>
\* "!crawl !b:d -1"
CrawlNegative ==
    <<"!", "c", "r", "a", "w", "l", " ", "!", "b", ":", "d", " ", "-", "1">>
\* "!crawlx !b:d 1"
Crawlx ==
    <<"!", "c", "r", "a", "w", "l", "x", " ", "!", "b", ":", "d", " ", "1">>
\* "!foo"
UnknownCmd ==
    <<"!", "f", "o", "o">>
\* "hello"
Chatter ==
    <<"h", "e", "l", "l", "o">>
\* "Timestamp: x"
MarkerNonNumeric ==
    <<"T", "i", "m", "e", "s", "t", "a", "m", "p", ":", " ", "x">>
\* "Timestamp:x 1"
MarkerGlued ==
    <<"T", "i", "m", "e", "s", "t", "a", "m", "p", ":", "x", " ", "1">>

\* "Timestamp: 1\r"
MarkerCarriageReturn ==
    <<"T", "i", "m", "e", "s", "t", "a", "m", "p", ":", " ", "1", "\r">>

\* The bodies of the events the sync stream delivers: the commands, their
\* malformed variants, chatter, and markers of this and of other runs.
Bodies ==
    { PingCmd, ExitCmd, BareCrawl, Crawl1, Crawl2, CrawlNotJoined,
      CrawlNonNumeric, CrawlZero, CrawlNegative, Crawlx,
      UnknownCmd, Chatter, MarkerNonNumeric, MarkerGlued, MarkerCarriageReturn }
    \cup { MarkerBody(t) : t \in 1..MaxClock }

\* The rooms whose events reach the callback: the log room and every control
\* room created so far (the current one and those of earlier provisionings).
EventRooms(k) == {LOG_ROOM} \cup {ControlId(i) : i \in 1..k}

\* json.dump followed by json.load: a dict of strings and integers comes back
\* as it was written.
JsonDump(cfg) == cfg
JsonLoad(file) == file

\* line 94: json.load raises JSONDecodeError on a file of 0 bytes, and line 95
\* catches FileNotFoundError only.
Decodes(file) == file # Truncated

\* lines 93-96: self.config as __init__ leaves it; nothing is assigned when
\* json.load raises.
Loaded(file) == IF Decodes(file) THEN JsonLoad(file) ELSE EmptyDict

----------------------------------------------------------------------------
(* The state machine.                                                      *)

NoEvent == [op |-> "none", room |-> <<>>, body |-> <<>>, ts |-> 0]

Snapshot == [config |-> config, begin_process |-> begin_process,
             disk |-> disk, provisioned |-> provisioned]

\* What a new process starts from: config.json and an empty memory.
FreshSnapshot == [config |-> EmptyDict, begin_process |-> FALSE,
                  disk |-> disk, provisioned |-> provisioned]

\* The config.json a handler leaves: the last one it dumped, if any.
RECURSIVE Written(_, _)
Written(eff, file) ==
    IF eff = <<>> THEN file
    ELSE Written(Tail(eff),
                 IF Head(eff).type = "persist" THEN JsonDump(Head(eff).config) ELSE file)

\* How many times _initialize_spaces ran to its end (line 84, its last call).
RECURSIVE Provisionings(_)
Provisionings(eff) ==
    IF eff = <<>> THEN 0
    ELSE (IF Head(eff).type = "put_state" /\ Head(eff).kind = "m.room.name" THEN 1 ELSE 0)
         + Provisionings(Tail(eff))

PhaseAfter(outcome) ==
    IF outcome = "return" THEN "syncing"
    ELSE IF outcome = "exit0" THEN "exit0"
    ELSE IF outcome = "exit1" THEN "exit1"
    ELSE "raised"

\* No process has run yet: no config.json, nothing in memory.
Init ==
    /\ disk = EmptyDict
    /\ config = EmptyDict
    /\ begin_process = FALSE
    /\ timestamp = 0
    /\ phase = "down"
    /\ now = 0
    /\ provisioned = 0
    /\ ev = NoEvent
    /\ pre = [config |-> EmptyDict, begin_process |-> FALSE,
              disk |-> EmptyDict, provisioned |-> 0]
    /\ effects = <<>>
    /\ server = <<>>
    /\ dispatched = {}

\* How the server answers the calls of start(): see StartRun and
\* InitializeSpaces.
StartAnswers == {"ok", "login", "space", "room", "state"}

\* The config start() holds when it awaits its call number j: line 42 follows
\* the log of line 40, line 71 the child link of lines 61-70.
MemoryAt(loaded, eff, j) ==
    LET spaces == {i \in 1..(j - 1) :
                     /\ eff[i].type = "log"
                     /\ eff[i].msg.text = "Created space with ID {}"}
        links == {i \in 1..(j - 1) :
                     /\ eff[i].type = "put_state"
                     /\ eff[i].kind = "m.space.child"
                     /\ eff[i].key # LOG_ROOM
                     /\ eff[i].ok}
        cfg1 == IF spaces = {} THEN loaded
                ELSE Put(loaded, "ADMIN_SPACE",
                         eff[CHOOSE i \in spaces : TRUE].msg.args[1])
    IN  IF links = {} THEN cfg1
        ELSE Put(cfg1, "CONTROL_ROOM", eff[CHOOSE i \in links : TRUE].key)

\* The most calls a run of start() awaits: lines 102, 35, 40, 56, 61, 72, 75,
\* 84, 106 and 113.
MaxStartCalls == 10

\* The calls a run of start() has made when it is cut short: its first n.
Prefixes(runs) ==
    { SubSeq(c[1].effects, 1, c[2]) :
        c \in {d \in runs \X (0..MaxStartCalls) : d[2] <= Len(d[1].effects)} }

\* What a kill leaves of the runs of start(), the process being killed while
\* start() awaits its call number j: the calls before it were made and the
\* awaited one was made (c[2] = 0) or not (c[2] = 1), and memory is as the
\* statements before that await left it. (A kill in the login of line 100
\* leaves what a kill in the first call leaves when that call was not made.)
StartInterruptions(runs, loaded) ==
    { [config |-> MemoryAt(loaded, c[1], Len(c[1]) + c[2]), effects |-> c[1]] :
        c \in {d \in Prefixes(runs) \X {0, 1} : Len(d[1]) + d[2] > 0} }

\* What a step keeps of the calls start() made: all of them, or the sends
\* alone (the marker of line 113, which the homeserver stores).
Recorded(eff, whole) ==
    IF whole THEN eff ELSE SelectSeq(eff, LAMBDA e : e.type = "send")

\* start() runs up to sync_forever, or ends by an exception or SystemExit.
StartCompleted(r, whole) ==
    /\ config' = r.config
    /\ begin_process' = r.begin_process
    /\ effects' = Recorded(r.effects, whole)
    /\ phase' = PhaseAfter(r.outcome)
    /\ provisioned' = provisioned + Provisionings(r.effects)
    /\ ev' = [NoEvent EXCEPT !.op = "start"]

\* The process is killed inside start().
StartInterrupted(k, whole) ==
    /\ config' = k.config
    /\ begin_process' = BeginAtInit
    /\ effects' = Recorded(k.effects, whole)
    /\ phase' = "killed"
    /\ provisioned' = provisioned + Provisionings(k.effects)
    /\ ev' = [NoEvent EXCEPT !.op = "killed_start"]

\* A process is started (the first one, or after the previous one ended):
\* __init__ loads config.json, start() runs up to sync_forever.
StartProcess(whole) ==
    /\ phase # "syncing"
    /\ timestamp' = now + 1
    /\ now' = now + 1
    /\ pre' = FreshSnapshot
    /\ LET loaded == Loaded(disk)
           runs == IF Decodes(disk)
                   THEN UNION { StartRun(loaded, provisioned, now + 1, res, controller) :
                                  res \in StartAnswers, controller \in BOOLEAN }
                   ELSE {Result(loaded, BeginAtInit, <<>>, "raise")}
       IN  \/ \E r \in runs : StartCompleted(r, whole)
           \/ \E k \in StartInterruptions(runs, loaded) : StartInterrupted(k, whole)
    /\ UNCHANGED disk

\* The calls a handler awaits: every effect but json.dump and SystemExit.
IsAwait(e) == e.type \notin {"persist", "terminate"}

\* How many calls the handler awaits in a run that has these effects.
Awaits(eff) == Cardinality({i \in DOMAIN eff : IsAwait(eff[i])})

\* The handler runs to its end.
Completed(r, room, body, ts) ==
    /\ config' = r.config
    /\ begin_process' = r.begin_process
    /\ effects' = r.effects
    /\ phase' = PhaseAfter(r.outcome)
    /\ disk' = Written(r.effects, disk)
    /\ ev' = [op |-> "event", room |-> room, body |-> body, ts |-> ts]

\* The process is killed while the handler awaits one of its calls: the
\* calls before it were made and the awaited one was made or not. Memory is
\* as the statements before the await left it: lines 138-139 precede the
\* await of line 140, line 155 follows the last await of "!exit", and no
\* other branch assigns. config.json is as it was.
Interrupted(r, room, body, ts) ==
    /\ LET awaits == Awaits(r.effects)
       IN  /\ awaits > 0
           /\ \E n \in 0..awaits : effects' = SubSeq(r.effects, 1, n)
    /\ config' = IF r.outcome = "exit0" THEN config ELSE r.config
    /\ begin_process' = r.begin_process
    /\ phase' = "killed"
    /\ disk' = disk
    /\ ev' = [op |-> "kill", room |-> room, body |-> body, ts |-> ts]

\* The process is killed in lines 155-157, after the last await of "!exit":
\* memory holds the timestamp of line 155, and config.json is as it was (the
\* kill came before open() of line 156), holds 0 bytes (open(..., "w") has
\* emptied it and the text, which json.dump leaves in the buffer of the file
\* object, is not written yet), or holds the new config (the kill came
\* between lines 156 and 157).
InterruptedInDump(r, room, body, ts) ==
    /\ \E p \in DOMAIN r.effects :
          /\ r.effects[p].type = "persist"
          /\ \/ effects' = SubSeq(r.effects, 1, p - 1) /\ disk' = disk
             \/ effects' = SubSeq(r.effects, 1, p - 1) /\ disk' = Truncated
             \/ /\ effects' = SubSeq(r.effects, 1, p)
                /\ disk' = JsonDump(r.effects[p].config)
    /\ config' = r.config
    /\ begin_process' = r.begin_process
    /\ phase' = "killed"
    /\ ev' = [op |-> "kill", room |-> room, body |-> body, ts |-> ts]

\* message_callback runs on one room-message event, to its end or until the
\* process is killed.
HandleEvent(room, body, ts) ==
    /\ phase = "syncing"
    /\ pre' = Snapshot
    /\ \E r \in MessageCallback(room, body, ts, config, begin_process,
                                 timestamp, JoinedRooms(provisioned)) :
            \/ Completed(r, room, body, ts)
            \/ Interrupted(r, room, body, ts)
            \/ InterruptedInDump(r, room, body, ts)
    /\ UNCHANGED <<timestamp, now, provisioned>>

\* The process is killed or crashes while it waits in sync_forever for the
\* next event.
KillProcess ==
    /\ phase = "syncing"
    /\ phase' = "killed"
    /\ ev' = [NoEvent EXCEPT !.op = "kill"]
    /\ effects' = <<>>
    /\ pre' = Snapshot
    /\ UNCHANGED <<disk, config, begin_process, timestamp, now, provisioned>>

----------------------------------------------------------------------------
(* The program against events of any room, body and server timestamp.      *)

Start ==
    /\ now < MaxClock
    /\ StartProcess(TRUE)
    /\ UNCHANGED <<server, dispatched>>

\* The sync loop hands one room-message event to message_callback.
Deliver ==
    /\ \E room \in EventRooms(provisioned), body \in Bodies, ts \in 0..MaxTs :
         HandleEvent(room, body, ts)
    /\ UNCHANGED <<server, dispatched>>

Kill == KillProcess /\ UNCHANGED <<server, dispatched>>

Next == Start \/ Deliver \/ Kill

Spec == Init /\ [][Next]_vars

----------------------------------------------------------------------------
(* The program against a homeserver that stamps events in creation order:  *)
(* the i-th event it stores has the server timestamp i. The sync stream of  *)
(* a run hands over stored events in any order, those of before the run     *)
(* included, before or after the marker of the run.                         *)

\* The bodies users post into the control rooms.
PostBodies == {PingCmd, ExitCmd}

\* lines 126-147: the event reaches the command branches of line 148
Dispatches(room, body, ts, cfg, begin) ==
    /\ ~IsStale(ts, cfg)
    /\ ~IsMarkerShape(room, body)
    /\ ~NotStarted(begin)
    /\ IsControlCommand(room, body, cfg)

\* How many of the stored events users posted.
UserPosts(stored) == Cardinality({i \in DOMAIN stored : stored[i].room # LOG_ROOM})

\* A user posts a command into a control room.
Post ==
    /\ UserPosts(server) < MaxPosts
    /\ \E k \in 1..provisioned, body \in PostBodies :
         server' = Append(server, [room |-> ControlId(k), body |-> body])
    /\ ev' = [NoEvent EXCEPT !.op = "post"]
    /\ effects' = <<>>
    /\ pre' = Snapshot
    /\ UNCHANGED <<disk, config, begin_process, timestamp, phase, now,
                   provisioned, dispatched>>

\* lines 113-117: the run sent its handshake marker.
MarkerSent(eff, tok) ==
    LET marker == RoomSend(LOG_ROOM, [msgtype |-> "m.text", body |-> MarkerBody(tok)])
    IN  \E i \in DOMAIN eff : eff[i] = marker

\* What users can post while start() runs, which gives the event loop back
\* at each of its awaits: up to "budget" commands, in any order, into the
\* control rooms that exist, the first k.
EarlyPosts(k, budget) ==
    UNION { [1..n -> {[room |-> ControlId(j), body |-> body] :
                        j \in 1..k, body \in PostBodies}] :
            n \in 0..budget }

\* A process is started; when start() has made the call of line 113 its
\* marker is stored by the server as the newest event of the log room, after
\* what users posted in the meantime: once the run has created its control
\* room (line 56), commands into that room and into the older ones, in any
\* order. (What is posted when the run creates no room or sends no marker
\* is a Post before or after this step, with the same events stored in the
\* same order; a room of a run that did not come to line 84 is the control
\* room of no run.) Of the calls of start() the step keeps the marker, the
\* one the server stores.
Restart ==
    /\ now < MaxRuns
    /\ StartProcess(FALSE)
    /\ LET marked == MarkerSent(effects', timestamp')
           early == IF marked /\ provisioned' > provisioned
                    THEN EarlyPosts(provisioned', MaxPosts - UserPosts(server))
                    ELSE {<<>>}
       IN  \E posts \in early :
             server' = server \o posts \o
                       (IF marked
                        THEN <<[room |-> LOG_ROOM, body |-> MarkerBody(timestamp')]>>
                        ELSE <<>>)
    /\ UNCHANGED dispatched

\* The sync loop hands one stored event to message_callback.
Sync ==
    /\ \E i \in DOMAIN server :
         /\ dispatched' =
               IF Dispatches(server[i].room, server[i].body, i, config, begin_process)
               THEN dispatched \cup {<<i, timestamp>>}
               ELSE dispatched
         /\ HandleEvent(server[i].room, server[i].body, i)
    /\ UNCHANGED server

\* The process is killed or crashes between two events; Sync has the kill
\* inside a handler.
Crash == KillProcess /\ UNCHANGED <<server, dispatched>>

NextOrdered == Post \/ Restart \/ Sync \/ Crash

SpecOrdered == Init /\ [][NextOrdered]_vars

----------------------------------------------------------------------------
(* Vocabulary of the properties, stated on the last step: its input ev, the *)
(* state before it pre, and its effects.                                   *)

Delivered == ev.op = "event"

\* The step was the start of a process, run to its end or killed on the way.
StartOps == {"start", "killed_start"}

\* The watermark an event met: LAST_TIMESTAMP, 0 when the key is absent.
Watermark(cfg) == IF "LAST_TIMESTAMP" \in DOMAIN cfg THEN cfg["LAST_TIMESTAMP"] ELSE 0

\* The step changed neither the session state nor the Config, in memory or on disk.
Untouched ==
    /\ config = pre.config
    /\ begin_process = pre.begin_process
    /\ disk = pre.disk

\* The event was suppressed: nothing emitted, nothing changed, the loop goes on.
Suppressed == effects = <<>> /\ Untouched /\ phase = "syncing"

EventInControlRoom ==
    /\ "CONTROL_ROOM" \in DOMAIN pre.config
    /\ ev.room = pre.config["CONTROL_ROOM"]

BangBody == ev.body # <<>> /\ ev.body[1] = "!"

\* The event of the step, handled to the end or not, is a control-room
\* command that passed the gate.
Gated ==
    /\ pre.begin_process
    /\ ev.ts >= Watermark(pre.config)
    /\ EventInControlRoom
    /\ BangBody

\* The event is a control-room command that passed the gate and was handled
\* to the end.
Admitted == Delivered /\ Gated

EventArgs == Split(ev.body, " ")

IsLogTo(e, text, room) == e.type = "log" /\ e.room = room /\ e.msg.text = text

Indices(type) == {i \in DOMAIN effects : effects[i].type = type}

UsageArguments == "Invalid arguments. Expected: !crawl <room_id> <num_messages>"
UsageCommands == "Invalid command. Available commands: !ping, !exit, !crawl"

----------------------------------------------------------------------------
(* C1 *)

\* C1: an event whose server timestamp is strictly below the watermark is
\* suppressed, whatever its room and body and whether or not the session has
\* started: no effect, and begin_process, the watermark and the Config stay
\* as they were.
C1_StaleSuppressed ==
    (Delivered /\ ev.ts < Watermark(pre.config)) => Suppressed

\* A stale log-room marker that carries this run's own token was delivered.
C1_Witness ==
    /\ Delivered
    /\ ev.ts < Watermark(pre.config)
    /\ ev.room = LOG_ROOM
    /\ ev.body = TimestampPrefix \o <<" ">> \o IntToChars(timestamp)
    /\ ~begin_process

----------------------------------------------------------------------------
(* C2 *)

\* C2: while begin_process is false, a control-room event whose body starts
\* with "!" is suppressed: no effect of any kind, no change of state, and the
\* run goes on without it.
C2_GateSuppresses ==
    (Delivered /\ ~pre.begin_process /\ EventInControlRoom /\ BangBody) => Suppressed

\* A valid "!exit", not stale, reached the control room before the handshake.
C2_Witness ==
    /\ Delivered
    /\ ~pre.begin_process
    /\ EventInControlRoom
    /\ ev.body = ExitCmd
    /\ ev.ts >= Watermark(pre.config)

----------------------------------------------------------------------------
(* C3 *)

\* C3: an admitted "!ping" emits exactly one effect, the log "Pong!" to the
\* control room, and in particular no usage-error log.
C3_PingOnlyPong ==
    (Admitted /\ ev.body = PingCmd) =>
        /\ Len(effects) = 1
        /\ IsLogTo(effects[1], "Pong!", ev.room)

----------------------------------------------------------------------------
(* C4 *)

\* The effects of an admitted "!exit", in order, and the state it leaves.
ExitSequence ==
    (Admitted /\ ev.body = ExitCmd) =>
        /\ Len(effects) = 5
        /\ IsLogTo(effects[1], "Exiting...", ev.room)
        /\ IsLogTo(effects[2], "--- END OF BOT LOG ---", LOG_ROOM)
        /\ effects[3].type = "close"
        /\ effects[4].type = "persist"
        /\ "LAST_TIMESTAMP" \in DOMAIN effects[4].config
        /\ effects[4].config["LAST_TIMESTAMP"] = ev.ts
        /\ disk = effects[4].config
        /\ effects[5].type = "terminate" /\ effects[5].code = 0
        /\ phase = "exit0"

\* Once a run has exited, the only step left is the start of the next run.
NothingAfterExit == (phase = "exit0") => (ev'.op \in StartOps /\ disk' = disk)

\* C4: an admitted "!exit" emits the "Exiting..." log to the control room, the
\* sign-off log to the log room, the close of the session, the persist of the
\* Config with LAST_TIMESTAMP equal to the event's timestamp, and termination
\* with code 0, in this order; and no later event of that run is handled.
C4_ExitOrdered == []ExitSequence /\ [][NothingAfterExit]_vars

\* An admitted "!exit" whose timestamp is above the watermark it met has ended the run.
C4_Witness ==
    /\ Admitted
    /\ ev.body = ExitCmd
    /\ ev.ts > Watermark(pre.config)
    /\ phase = "exit0"

----------------------------------------------------------------------------
(* C5 *)

\* The body is a "!crawl" whose argument count is not two or whose count is
\* not a positive integer.
MalformedCrawl ==
    /\ EventArgs[1] = CrawlCmd
    /\ \/ Len(EventArgs) # 3
       \/ ~IsInt(EventArgs[3])
       \/ ParseInt(EventArgs[3]) <= 0

\* C5: an admitted malformed "!crawl" emits exactly one effect, the usage
\* error log to the control room: no joined-room lookup, no history fetch, no
\* forward into the log room.
C5_MalformedCrawlUsage ==
    (Admitted /\ MalformedCrawl) =>
        /\ Len(effects) = 1
        /\ IsLogTo(effects[1], UsageArguments, ev.room)

----------------------------------------------------------------------------
(* C6 *)

WellFormedCrawl ==
    /\ EventArgs[1] = CrawlCmd
    /\ Len(EventArgs) = 3
    /\ IsInt(EventArgs[3])
    /\ ParseInt(EventArgs[3]) > 0

\* No joined-room lookup of the step was answered with an error.
LookupAnswered == \A i \in Indices("joined_rooms") : effects[i].ok

\* C6: an admitted well-formed "!crawl" of a room that is not in the set of
\* joined rooms the homeserver answers emits exactly one log, "Not in room",
\* to the control room: no history fetch, no progress line, no forward; and
\* the run goes on unchanged.
C6_NotInRoom ==
    (/\ Admitted
     /\ WellFormedCrawl
     /\ EventArgs[2] \notin JoinedRooms(provisioned)
     /\ LookupAnswered) =>
        /\ Cardinality(Indices("log")) = 1
        /\ \E i \in Indices("log") : IsLogTo(effects[i], "Not in room", ev.room)
        /\ Indices("room_messages") = {}
        /\ Indices("send") = {}
        /\ DOMAIN effects = Indices("log") \cup Indices("joined_rooms")
        /\ Untouched /\ phase = "syncing"

\* A well-formed crawl of the room "!b:d", which is not joined, was answered.
C6_Witness ==
    /\ Admitted
    /\ WellFormedCrawl
    /\ EventArgs[2] = R2
    /\ R2 \notin JoinedRooms(provisioned)
    /\ \E i \in Indices("joined_rooms") : effects[i].ok

----------------------------------------------------------------------------
(* C7 *)

IsSend(e) == e.type = "send"

\* A stored or returned event is a room message (text, image, ...).
IsMessageEvent(e) == e.cls \in {RoomMessageText, RoomMessageImage}

Contents(events) == [i \in DOMAIN events |-> events[i].content]

\* The history fetch of the step, when it made one that succeeded.
FetchIndex == CHOOSE i \in Indices("room_messages") : TRUE

CrawlFetched ==
    /\ Admitted
    /\ EventArgs[1] = CrawlCmd
    /\ Len(EventArgs) = 3
    /\ IsInt(EventArgs[3])
    /\ EventArgs[2] \in JoinedRooms(provisioned)
    /\ Indices("room_messages") # {}
    /\ effects[FetchIndex].ok

\* The contents sent are those of the room messages of the returned chunk,
\* in its order, all into the log room, after exactly one progress log to
\* the control room.
ForwardsChunk ==
    LET fetch == effects[FetchIndex]
        sends == SelectSeq(effects, IsSend)
    IN  /\ Contents(sends) = Contents(SelectSeq(fetch.chunk, IsMessageEvent))
        /\ \A i \in Indices("send") : effects[i].room = LOG_ROOM
        /\ Cardinality(Indices("log")) = 1
        /\ \E i \in Indices("log") :
              /\ IsLogTo(effects[i], "Crawling {} messages from {}", ev.room)
              /\ \A j \in Indices("send") : i < j
        /\ fetch.limit = ParseInt(EventArgs[3])

\* The part of C7 about which contents are sent, where and in which order.
CrawlForwardsChunk == CrawlFetched => ForwardsChunk

\* A crawl with limit 2 forwarded two different contents.
CrawlForwardsChunk_Witness ==
    /\ CrawlFetched
    /\ Cardinality(Indices("send")) = 2
    /\ \E i, j \in Indices("send") : effects[i].content # effects[j].content

\* Against a room that stores at least n messages, exactly n are forwarded.
ForwardsCount ==
    LET fetch == effects[FetchIndex]
    IN  Len(SelectSeq(fetch.stored, IsMessageEvent)) >= fetch.limit
            => Cardinality(Indices("send")) = fetch.limit

\* C7: a crawl of a joined room whose fetch (limit n) succeeds sends into the
\* log room, unmodified and in order, the contents of the room messages of the
\* returned list, after exactly one progress log to the control room, and so
\* forwards exactly n contents when the room stores at least n messages.
C7_CrawlForwards == CrawlFetched => (ForwardsChunk /\ ForwardsCount)

----------------------------------------------------------------------------
(* C8 *)

\* C8: over any sequence of runs, ended by "!exit" or by an unclean
\* termination, provisioning completes at most once: after a run has
\* provisioned the administrative space, no later run provisions again.
C8_ProvisionedOnce == provisioned <= 1

----------------------------------------------------------------------------
(* C9 *)

\* The run that has just entered the sync loop provisioned the space.
StartedAfterProvisioning ==
    /\ ev.op = "start"
    /\ phase = "syncing"
    /\ provisioned = pre.provisioned + 1

\* C9: when provisioning completes, the room ids it learned are in the
\* persisted Config before the sync loop is entered, so that the next run
\* reads them back as its room targets.
C9_ProvisioningPersisted ==
    StartedAfterProvisioning =>
        /\ {"ADMIN_SPACE", "CONTROL_ROOM"} \subseteq DOMAIN JsonLoad(disk)
        /\ JsonLoad(disk)["ADMIN_SPACE"] = config["ADMIN_SPACE"]
        /\ JsonLoad(disk)["CONTROL_ROOM"] = config["CONTROL_ROOM"]

----------------------------------------------------------------------------
(* C10 *)

\* The body is none of "!ping", "!exit" and "!crawl" with or without arguments.
UnrecognizedCommand ==
    /\ ev.body # PingCmd
    /\ ev.body # ExitCmd
    /\ EventArgs[1] # CrawlCmd

\* C10: an admitted "!" body that is not a recognized command, "!crawlx ..."
\* included, emits exactly one effect, the usage error listing the three
\* commands, to the control room; the run goes on unchanged.
C10_UnknownUsage ==
    (Admitted /\ UnrecognizedCommand) =>
        /\ Len(effects) = 1
        /\ IsLogTo(effects[1], UsageCommands, ev.room)
        /\ Untouched /\ phase = "syncing"

----------------------------------------------------------------------------
(* C11 *)

\* The body is a "!crawl" with an argument count other than two, or with a
\* count that int() does not accept.
MalformedCrawlArguments ==
    /\ EventArgs[1] = CrawlCmd
    /\ \/ Len(EventArgs) # 3
       \/ ~IsInt(EventArgs[3])

\* C11: an admitted "!crawl" with malformed arguments is never fatal: after
\* it the run is still in its event loop, and begin_process, the watermark
\* and the Config are as they were, so that the next admitted command meets
\* the state the malformed one met.
C11_MalformedCrawlNotFatal ==
    (Admitted /\ MalformedCrawlArguments) => (phase = "syncing" /\ Untouched)

----------------------------------------------------------------------------
(* C13 *)

\* The log-room marker that carries the token of the running process was
\* delivered.
OwnMarkerDelivered ==
    /\ Delivered
    /\ ev.room = LOG_ROOM
    /\ ev.body = MarkerBody(timestamp)

\* C13, as claimed: in every run, whatever LAST_TIMESTAMP the run loaded,
\* begin_process is true once the marker carrying the run's own token has
\* been processed.
C13_MarkerStartsSession == OwnMarkerDelivered => begin_process

VerifiedText == "Timestamp verified, starting process..."

\* C13, amended: in every run, begin_process is true once the marker
\* carrying the run's own token has been processed, provided the marker's
\* server timestamp is not below the watermark the run holds at that moment.
C13_FreshMarkerStartsSession ==
    (OwnMarkerDelivered /\ ev.ts >= Watermark(pre.config)) => begin_process

\* A run that loaded a watermark above 0 from config.json was started by its
\* own marker.
C13_Witness ==
    /\ OwnMarkerDelivered
    /\ Watermark(pre.disk) > 0
    /\ ev.ts >= Watermark(pre.config)
    /\ ~pre.begin_process
    /\ begin_process

----------------------------------------------------------------------------
(* C14 *)

\* The event is a log-room message of the shape "Timestamp: <t>".
MarkerShaped ==
    /\ Delivered
    /\ ev.room = LOG_ROOM
    /\ Len(EventArgs) = 2
    /\ EventArgs[1] = TimestampPrefix

\* <t> is an integer literal equal to the token of the running process.
TokenMatches == IsInt(EventArgs[2]) /\ ParseInt(EventArgs[2]) = timestamp

\* C14: a log-room message "Timestamp: <t>" whose <t> is not this run's token
\* (another run's, or no integer) is inert: begin_process, the watermark and
\* the Config stay as they were and nothing is emitted; and a marker-shaped
\* message, matching or not, is never dispatched as a command: at most the
\* confirmation log is emitted.
C14_ForeignMarkerInert ==
    MarkerShaped =>
        /\ ~TokenMatches => Suppressed
        /\ \/ effects = <<>>
           \/ Len(effects) = 1 /\ IsLogTo(effects[1], VerifiedText, LOG_ROOM)
        /\ phase = "syncing"
        /\ disk = pre.disk

\* The marker of the first run was replayed, not stale, to the second run
\* before its own marker.
C14_Witness ==
    /\ MarkerShaped
    /\ timestamp = 2
    /\ ev.body = MarkerBody(1)
    /\ ev.ts >= Watermark(pre.config)
    /\ ~pre.begin_process
    /\ ~begin_process

----------------------------------------------------------------------------
(* C15 *)

\* The step belongs to the lifetime of the running process.
InLifetime == Delivered \/ ev.op = "kill"

\* C15: within one process lifetime the watermark never decreases, and it
\* changes only to the server timestamp of the event being handled, which is
\* a log-room message the handler takes for the matching marker (also when it
\* is observed again) or an admitted "!exit".
C15_WatermarkMonotone ==
    InLifetime =>
        /\ Watermark(config) >= Watermark(pre.config)
        /\ config # pre.config =>
              /\ config = Put(pre.config, "LAST_TIMESTAMP", ev.ts)
              /\ ev.ts >= Watermark(pre.config)
              /\ \/ IsMarkerShape(ev.room, ev.body) /\ TokenMatches
                 \/ Gated /\ ev.body = ExitCmd

\* The matching marker was observed again, with a later timestamp, and
\* raised the watermark a second time.
C15_Witness ==
    /\ OwnMarkerDelivered
    /\ pre.begin_process
    /\ "LAST_TIMESTAMP" \in DOMAIN pre.config
    /\ ev.ts > Watermark(pre.config)
    /\ Watermark(config) = ev.ts

----------------------------------------------------------------------------
(* C17 *)

\* C17: begin_process is false when a process has started, and once it is
\* true no event and no command of that process sets it back to false.
C17_SessionStartedSticks ==
    /\ ev.op \in StartOps => ~begin_process
    /\ (InLifetime /\ pre.begin_process) => begin_process

\* After the handshake, the marker of another run was delivered, not stale,
\* and the session stayed started.
C17_Witness ==
    /\ MarkerShaped
    /\ ~TokenMatches
    /\ IsInt(EventArgs[2])
    /\ ev.ts >= Watermark(pre.config)
    /\ pre.begin_process
    /\ begin_process

----------------------------------------------------------------------------
(* C16 *)

\* A process that follows a run ended by "!exit" starts with the timestamp of
\* that "!exit" as its watermark, which is not below the watermark the ended
\* run held when the "!exit" arrived.
ExitWatermarkLoaded ==
    (phase = "exit0" /\ ev'.op \in StartOps) =>
        /\ Watermark(config') = ev.ts
        /\ ev.ts >= Watermark(pre.config)

\* Within a run the watermark only grows, so the last value is the largest.
WatermarkGrows == (ev'.op \notin StartOps) => Watermark(config') >= Watermark(config)

\* config.json is written only in the handling of an "!exit" that passed the
\* gate, and an "!exit" handled to the end leaves its timestamp there.
PersistedOnlyByExit ==
    /\ disk' # disk => (Gated' /\ ev'.body = ExitCmd)
    /\ (disk' # disk /\ Delivered') => Watermark(disk') = ev'.ts

\* The LAST_TIMESTAMP that config.json holds never decreases.
PersistedNeverDecreases == Watermark(disk') >= Watermark(disk)

\* C16: after a run ended by "!exit", the next run starts with the server
\* timestamp of that "!exit" as its watermark, which is at least every
\* watermark the ended run held; the persisted LAST_TIMESTAMP is written only
\* by "!exit" and never decreases from one run to the next.
C16_ExitWatermarkCarried ==
    [][/\ ExitWatermarkLoaded
       /\ WatermarkGrows
       /\ PersistedOnlyByExit
       /\ PersistedNeverDecreases]_vars

----------------------------------------------------------------------------
(* C18 *)

\* The event is the handshake marker of the running process: a log-room
\* message whose body is exactly "Timestamp: <token>".
MatchingMarker == MarkerShaped /\ TokenMatches

\* After the handshake, the event is not a control-room "!" body.
NonCommand ==
    /\ Delivered
    /\ pre.begin_process
    /\ ~(EventInControlRoom /\ BangBody)

\* C18: after the handshake, a control-room event whose body does not start
\* with "!", and any event of another room except the matching handshake
\* marker in the log room, a log-room "!exit" included, has no effect and
\* changes neither begin_process, the watermark nor the Config.
C18_NonCommandsInert == (NonCommand /\ ~MatchingMarker) => Suppressed

\* The same, with the exception widened to every log-room message that the
\* handler takes for the matching marker.
NonCommandsInertButMarkers ==
    (NonCommand /\ ~(IsMarkerShape(ev.room, ev.body) /\ TokenMatches)) => Suppressed

\* After the handshake an "!exit", not stale, was delivered in the log room
\* and the run went on.
NonCommandsInertButMarkers_Witness ==
    /\ NonCommand
    /\ ev.room = LOG_ROOM
    /\ ev.body = ExitCmd
    /\ ev.ts >= Watermark(pre.config)
    /\ phase = "syncing"

----------------------------------------------------------------------------
(* C19 *)

\* The send of some log of the step got an error response.
SomeLogFailed == \E i \in Indices("log") : ~effects[i].sent

\* The effects, had every send of a log succeeded.
AsIfSent(eff) ==
    [i \in DOMAIN eff |->
        IF eff[i].type = "log" THEN [eff[i] EXCEPT !.sent = TRUE] ELSE eff[i]]

\* What the handler can do on the event of the step when no send fails.
UnfailingOutcomes ==
    { r \in MessageCallback(ev.room, ev.body, ev.ts, pre.config,
                            pre.begin_process, timestamp, JoinedRooms(provisioned)) :
        \A i \in DOMAIN r.effects : r.effects[i].type = "log" => r.effects[i].sent }

\* The step did, failed sends apart, what a step without failures does.
SameButSends ==
    \E r \in UnfailingOutcomes :
        /\ r.effects = AsIfSent(effects)
        /\ r.config = config
        /\ r.begin_process = begin_process
        /\ PhaseAfter(r.outcome) = phase

EffectTypes == [i \in DOMAIN effects |-> effects[i].type]

\* C19: when the send of a log fails, the handler goes on: the effects of the
\* command are those it emits when every send succeeds, in the same order,
\* and it ends the same way; an "!exit" with failed sends still closes the
\* session, persists the Config with the event's timestamp and terminates
\* with code 0.
C19_SendFailureNotFatal ==
    (Delivered /\ SomeLogFailed) =>
        /\ SameButSends
        /\ (Admitted /\ ev.body = ExitCmd) =>
              /\ EffectTypes = <<"log", "log", "close", "persist", "terminate">>
              /\ effects[4].config = Put(pre.config, "LAST_TIMESTAMP", ev.ts)
              /\ disk = effects[4].config
              /\ effects[5].code = 0
              /\ phase = "exit0"

\* Both sends of an admitted "!exit" failed and the run ended with code 0,
\* the timestamp of the "!exit" on disk.
C19_Witness ==
    /\ Admitted
    /\ ev.body = ExitCmd
    /\ ~effects[1].sent
    /\ ~effects[2].sent
    /\ phase = "exit0"
    /\ ev.ts > 0
    /\ Watermark(disk) = ev.ts

----------------------------------------------------------------------------
(* C20 *)

\* The process that has just run start() got an error from the creation of
\* the administrative space.
SpaceCreationFailed ==
    /\ ev.op = "start"
    /\ \E i \in DOMAIN effects : effects[i] = RoomCreate("space", FALSE)

\* C20: when the creation of the administrative space fails, the process logs
\* the failure and ends with exit code 1 with no later step: no control room,
\* no state write, no invite, no handshake marker, no sync loop; ADMIN_SPACE
\* is absent from self.config and from config.json, so that the next run
\* provisions again.
C20_SpaceFailureExits ==
    SpaceCreationFailed =>
        /\ phase = "exit1"
        /\ Len(effects) = 3
        /\ IsLogTo(effects[1], "Creating admin space...", LOG_ROOM)
        /\ effects[2] = RoomCreate("space", FALSE)
        /\ IsLogTo(effects[3], "Error creating room: {}", LOG_ROOM)
        /\ "ADMIN_SPACE" \notin DOMAIN config
        /\ "ADMIN_SPACE" \notin DOMAIN disk
        /\ NeedsProvisioning(JsonLoad(disk))
        /\ provisioned = pre.provisioned

\* The second process failed to create the space, like the first or after the
\* first was stopped by "!exit" or a kill, and ended with code 1.
C20_Witness ==
    /\ SpaceCreationFailed
    /\ now = 2
    /\ phase = "exit1"

----------------------------------------------------------------------------
(* C12 *)

\* C12: with server timestamps that increase strictly in creation order, and
\* a sync stream that replays earlier events before or after the marker of
\* the new run, over any sequence of runs, ended by "!exit" or by a crash, a
\* control-room command dispatched by one run is dispatched by no other run.
C12_NoRedispatch ==
    \A p, q \in dispatched : p[1] = q[1] => p[2] = q[2]

\* A command that an earlier run dispatched was replayed to a later run after
\* its handshake, in the room that is still the control room, and was
\* suppressed; the earlier run was ended by a crash.
C12_Witness ==
    /\ Delivered
    /\ pre.begin_process
    /\ EventInControlRoom
    /\ BangBody
    /\ \E p \in dispatched : p[1] = ev.ts /\ p[2] < timestamp
    /\ Watermark(pre.disk) < ev.ts
    /\ Suppressed

====
